---- MODULE Spec2Model ----
(***************************************************************************)
(* Model of src/shs-server.py: a Tornado websocket server                  *)
(* (DeviceSocketHandler) and a polling thread (DeviceRunner) that share    *)
(* the class attributes isOpen / isArmed / isEnabled and the set waiters.  *)
(*                                                                         *)
(* Two units of execution:                                                 *)
(*   - the IOLoop thread runs open, on_close and on_message, one handler   *)
(*     at a time and each to completion (single-threaded event loop);      *)
(*   - the DeviceRunner thread runs run().  It is modelled statement by    *)
(*     statement (every read of a shared attribute is its own step),       *)
(*     because the IOLoop thread may run between any two of them.          *)
(* The poller never writes isArmed, isEnabled or waiters, so nothing an    *)
(* IOLoop handler reads between its first and last statement can be        *)
(* changed under it except isOpen, which on_message only writes; a         *)
(* handler is therefore one step.                                          *)
(*                                                                         *)
(* ev is a label: it tells what the handler that the IOLoop thread ran in  *)
(* the step leading to the current state raised and what it wrote to whom; *)
(* it is blank after any other step and after a handler that did neither.  *)
(*                                                                         *)
(* A write_message raises when the observer's stream is already closed     *)
(* (conn = "broken": the peer is gone, on_close has not run yet).          *)
(*                                                                         *)
(* last, snap, same, phase and line are observers: no statement of the     *)
(* program reads them.  Spec and LoopSpec leave them blank; NotifySpec,    *)
(* TickSpec, RearmSpec and LiveSpec run the same steps and each maintains  *)
(* the observers its properties are about.                                 *)
(*                                                                         *)
(* Python values: None, True, False are the strings "None", "True",        *)
(* "False".  GPIO.input returns 0/1, which Python compares equal to        *)
(* False/True; the sample is modelled as "False"/"True".  The locals of a  *)
(* thread that no longer exists are blank.                                 *)
(***************************************************************************)
EXTENDS Naturals, FiniteSets, TLC

\* Number of client connections (observer identities) the transport offers.
NumClients == 2

Clients == 1..NumClients

DEVICE_OPEN_KEY == "DEVICE_OPEN"
DEVICE_ARMED_KEY == "DEVICE_ARMED"
DEVICE_ENABLED_KEY == "DEVICE_ENABLED"
\* A key the server does not know.
OTHER_KEY == "OTHER"

PyBool == {"True", "False"}
PyTri == {"None"} \cup PyBool

\* Python truth value of a tri-state attribute: None and False are falsy.
Truthy(v) == v = "True"

Keys == {DEVICE_OPEN_KEY, DEVICE_ARMED_KEY, DEVICE_ENABLED_KEY}

\* Decoded JSON objects: every partial map from the three known keys to
\* booleans, and an unknown key alone or beside one known key.
Messages ==
    UNION {[D -> PyBool] : D \in SUBSET Keys}
        \cup UNION {{[k \in D \cup {OTHER_KEY} |-> IF k = OTHER_KEY THEN "True" ELSE f[k]] :
                        f \in [D -> PyBool]} : D \in {{}} \cup {{k} : k \in Keys}}

\* Raw text frames: a JSON object, well-formed JSON that is no object
\* (a number), or text that is not JSON at all.
ObjectTexts == {[kind |-> "object", obj |-> m] : m \in Messages}
RejectedTexts == {[kind |-> "scalar", obj |-> <<>>], [kind |-> "malformed", obj |-> <<>>]}
RawTexts == ObjectTexts \cup RejectedTexts

VARIABLES
    isOpen,       \* DeviceRunner.isOpen
    isArmed,      \* DeviceRunner.isArmed
    isEnabled,    \* DeviceRunner.isEnabled
    waiters,      \* DeviceSocketHandler.waiters
    conn,         \* transport: "closed", "open", or "broken" (peer gone)
    pc,           \* position of the DeviceRunner thread in run()
    deviceState,  \* run()'s local deviceState
    notify,       \* the NOTIFY message run() is broadcasting
    it,           \* the poller's send_updates loop: set iterator + writes done
    ev,           \* label: what the handler run by the last step raised and wrote
    up,           \* the process is running
    gpio,         \* the GPIO library: "setup" (line 109-110) or "cleaned"
    last,         \* observer: value of the last NOTIFY, no message applied since
    snap,         \* observer: the tested triple held at some instant of this tick
    same,         \* observer: this tick's sample equals the previous tick's
    phase,        \* observer: where the device is in a report / re-arm cycle
    line          \* observer: level of the contact on GPIO_PIN

vars == <<isOpen, isArmed, isEnabled, waiters, conn, pc, deviceState,
          notify, it, ev, up, gpio, last, snap, same, phase, line>>

shared == <<isOpen, isArmed, isEnabled>>

\* The observers: they record what a behaviour has done and are read by no
\* statement of the program.  Each specification maintains the ones its
\* properties are about and leaves the others blank.
watch == <<last, snap, same, phase, line>>
poller == <<pc, deviceState, notify, it>>

\* No send_updates loop in progress in the poller thread.
NoIter == [size |-> 0, stayed |-> {}, attempted |-> {}]

\* No NOTIFY message is being broadcast.
NoNotify == [MESSAGE_TYPE |-> "none", DEVICE_OPEN |-> "None"]

\* No REPLY message was broadcast.
NoReply == [MESSAGE_TYPE |-> "none", DEVICE_ARMED |-> "None", DEVICE_ENABLED |-> "None"]

\* The last step raised nothing in the IOLoop thread and wrote nothing.
NoEv == [op |-> "none", raised |-> "none", msg |-> NoReply,
         attempted |-> {}, received |-> {}]

Init ==
    /\ isOpen = "None"
    /\ isArmed = "None"
    /\ isEnabled = "None"
    /\ waiters = {}
    /\ conn = [c \in Clients |-> "closed"]
    /\ pc = "input"
    /\ deviceState = "None"
    /\ notify = NoNotify
    /\ it = NoIter
    /\ ev = NoEv
    /\ up = TRUE
    /\ gpio = "setup"
    /\ last = "none"
    /\ snap = FALSE
    /\ same = FALSE
    /\ phase = "none"
    /\ line = "None"

(***************************************************************************)
(* Message construction and decoding                                       *)
(***************************************************************************)

\* Mutant: the NOTIFY builder copied from the REPLY builder, type not changed.
device_notify_message_reply(lastOpen) ==
    [MESSAGE_TYPE |-> "REPLY", DEVICE_OPEN |-> lastOpen]

\* device_notify_message: the dict built from cls.isOpen as read at the call.
device_notify_message(lastOpen) ==
    [MESSAGE_TYPE |-> "NOTIFY", DEVICE_OPEN |-> lastOpen]

\* Mutant: the two attributes under each other's key.
device_reply_message_swapped(armed, enabled) ==
    [MESSAGE_TYPE |-> "REPLY", DEVICE_ARMED |-> enabled, DEVICE_ENABLED |-> armed]

\* device_reply_message: the dict built from cls.isArmed and cls.isEnabled.
device_reply_message(armed, enabled) ==
    [MESSAGE_TYPE |-> "REPLY", DEVICE_ARMED |-> armed, DEVICE_ENABLED |-> enabled]

\* tornado.escape.json_decode as on_message uses it: the parsed value, or
\* ValueError for text that is not JSON.
json_decode(raw) ==
    IF raw.kind = "malformed"
    THEN [raised |-> "ValueError", parsed |-> <<>>]
    ELSE [raised |-> "none", parsed |-> raw.obj]

\* handle_message raises before its first assignment when the parsed value
\* does not support `KEY in message` (a JSON number: TypeError at line 202).
handle_raises(raw) == IF raw.kind = "scalar" THEN "TypeError" ELSE "none"

\* Mutant: message.get(KEY) instead of the `in` tests, an absent key
\* overwriting the attribute with None.
handle_message_get(message) ==
    /\ isOpen' = IF DEVICE_OPEN_KEY \in DOMAIN message
                 THEN message[DEVICE_OPEN_KEY] ELSE "None"
    /\ isArmed' = IF DEVICE_ARMED_KEY \in DOMAIN message
                  THEN message[DEVICE_ARMED_KEY] ELSE "None"
    /\ isEnabled' = IF DEVICE_ENABLED_KEY \in DOMAIN message
                    THEN message[DEVICE_ENABLED_KEY] ELSE "None"

\* handle_message on a parsed object: three independent conditional writes.
handle_message(message) ==
    /\ isOpen' = IF DEVICE_OPEN_KEY \in DOMAIN message
                 THEN message[DEVICE_OPEN_KEY] ELSE isOpen
    /\ isArmed' = IF DEVICE_ARMED_KEY \in DOMAIN message
                  THEN message[DEVICE_ARMED_KEY] ELSE isArmed
    /\ isEnabled' = IF DEVICE_ENABLED_KEY \in DOMAIN message
                    THEN message[DEVICE_ENABLED_KEY] ELSE isEnabled

(***************************************************************************)
(* The waiters set and the IOLoop thread's handlers                        *)
(***************************************************************************)

\* The poller's send_updates loop sees every change of waiters: stayed keeps
\* the observers that have been in the set ever since the loop's iterator
\* was created.
touch_iter(newWaiters) ==
    it' = IF pc = "next"
          THEN [it EXCEPT !.stayed = @ \cap newWaiters]
          ELSE it

\* waiters.add(self)
waiters_add(c) == waiters \cup {c}

\* Mutant: on_close that forgets the observer is still registered.
waiters_remove_kept(c) ==
    IF c \in waiters
    THEN [raised |-> "none", set |-> waiters]
    ELSE [raised |-> "KeyError", set |-> waiters]

\* waiters.remove(self): the new set, and KeyError when self is not in it.
waiters_remove(c) ==
    IF c \in waiters
    THEN [raised |-> "none", set |-> waiters \ {c}]
    ELSE [raised |-> "KeyError", set |-> waiters]

\* write_message(message) on observer w raises when w's stream is closed.
write_raises(w) == conn[w] # "open"

\* Mutant: the try around the whole loop, the first write that raises ending
\* the broadcast.
send_updates_abort(targets) ==
    IF \E w \in targets : write_raises(w)
    THEN [attempted |-> {w \in targets : write_raises(w)}, received |-> {}]
    ELSE [attempted |-> targets, received |-> targets]

\* send_updates run by the IOLoop thread over the set `targets`: every
\* element is tried, each exception is caught inside the loop.
send_updates(targets) ==
    [attempted |-> targets, received |-> {w \in targets : ~write_raises(w)}]

\* The peer of an open connection goes away; Tornado has not yet called
\* on_close for it.
peer_gone(c) ==
    /\ up
    /\ conn[c] = "open"
    /\ conn' = [conn EXCEPT ![c] = "broken"]
    /\ ev' = NoEv
    /\ UNCHANGED <<shared, waiters, poller, up, gpio>>

\* Mutant: open() greeting the new observer with the current status.
open_greet(c) ==
    /\ up
    /\ conn[c] = "closed"
    /\ conn' = [conn EXCEPT ![c] = "open"]
    /\ waiters' = waiters_add(c)
    /\ touch_iter(waiters')
    /\ ev' = [op |-> "open", raised |-> "none",
              msg |-> device_reply_message(isArmed, isEnabled),
              attempted |-> {c}, received |-> {c}]
    /\ UNCHANGED <<shared, pc, deviceState, notify, up, gpio>>

\* open(): a connection completed its handshake.
open(c) ==
    /\ up
    /\ conn[c] = "closed"
    /\ conn' = [conn EXCEPT ![c] = "open"]
    /\ waiters' = waiters_add(c)
    /\ touch_iter(waiters')
    /\ ev' = NoEv
    /\ UNCHANGED <<shared, pc, deviceState, notify, up, gpio>>

\* on_close(): Tornado calls it once when a connection's stream closes; that
\* is also the case for a connection whose opening handshake was rejected,
\* for which open() never ran (conn[c] = "closed").
on_close(c) ==
    /\ up
    /\ LET r == waiters_remove(c) IN
        /\ waiters' = r.set
        /\ touch_iter(r.set)
        /\ ev' = IF r.raised = "none" THEN NoEv
                 ELSE [NoEv EXCEPT !.op = "on_close", !.raised = r.raised]
    /\ conn' = [conn EXCEPT ![c] = "closed"]
    /\ UNCHANGED <<shared, pc, deviceState, notify, up, gpio>>

\* on_message(): decode, apply, reply to all waiters.  An exception that
\* leaves on_message (nothing in it catches one) reaches Tornado's websocket
\* protocol, which logs it and aborts the connection: the stream is closed
\* and on_close() runs for it.
on_message(c, raw) ==
    /\ up
    /\ conn[c] = "open"
    /\ LET d == json_decode(raw)
           exc == IF d.raised # "none" THEN d.raised ELSE handle_raises(raw)
       IN  IF exc # "none"
           THEN /\ UNCHANGED shared
                /\ conn' = [conn EXCEPT ![c] = "closed"]
                /\ waiters' = waiters_remove(c).set
                /\ touch_iter(waiters')
                /\ ev' = [NoEv EXCEPT !.op = "on_message", !.raised = exc]
           ELSE /\ handle_message(d.parsed)
                /\ UNCHANGED <<conn, waiters, it>>
                /\ LET s == send_updates(waiters) IN
                     ev' = [op |-> "on_message", raised |-> "none",
                            msg |-> device_reply_message(isArmed', isEnabled'),
                            attempted |-> s.attempted, received |-> s.received]
    /\ UNCHANGED <<pc, deviceState, notify, up, gpio>>

(***************************************************************************)
(* The DeviceRunner thread: run(), one statement (one shared read) a step  *)
(***************************************************************************)

\* Mutant: `isArmed is not False`, unknown counting as armed.
armed_test_unknown(armed) == armed # "False"

\* The test of line 126, `isArmed and isEnabled and deviceState != isOpen`,
\* evaluated left to right with short circuit; each operand is a separate
\* read of a class attribute.
armed_test(armed) == Truthy(armed)
enabled_test(enabled) == Truthy(enabled)

\* Mutant: a level-triggered third operand, true whenever the contact is open.
changed_test_level(sample, lastOpen) == sample = "True"

changed_test(sample, lastOpen) == sample # lastOpen

\* Line 123: deviceState = GPIO.input(GPIO_PIN); the contact may have opened
\* or closed at any time, so any level can be read.
run_input ==
    /\ pc = "input"
    /\ \E sample \in PyBool : deviceState' = sample
    /\ pc' = "armed"
    /\ ev' = NoEv
    /\ UNCHANGED <<shared, waiters, conn, notify, it, up, gpio>>

\* Mutant: the read error taking the whole process down.
run_input_fault_exit ==
    /\ pc = "input"
    /\ pc' = "sensor_fault"
    /\ deviceState' = "None"
    /\ up' = FALSE
    /\ ev' = NoEv
    /\ UNCHANGED <<shared, waiters, conn, notify, it, gpio>>

\* Line 123 when the read raises: run() catches KeyboardInterrupt only, so
\* the exception ends the thread; neither GPIO.cleanup() call is reached.
run_input_fault ==
    /\ pc = "input"
    /\ pc' = "sensor_fault"
    /\ deviceState' = "None"
    /\ ev' = NoEv
    /\ UNCHANGED <<shared, waiters, conn, notify, it, up, gpio>>

\* Mutant: isOpen following the live line while the device is not armed.
run_armed_track ==
    /\ pc = "armed"
    /\ pc' = IF armed_test(isArmed) THEN "enabled" ELSE "sleep"
    /\ isOpen' = IF armed_test(isArmed) THEN isOpen ELSE deviceState
    /\ ev' = NoEv
    /\ UNCHANGED <<isArmed, isEnabled, waiters, conn, deviceState, notify, it, up, gpio>>

\* Line 126, first operand.
run_armed ==
    /\ pc = "armed"
    /\ pc' = IF armed_test(isArmed) THEN "enabled" ELSE "sleep"
    /\ ev' = NoEv
    /\ UNCHANGED <<shared, waiters, conn, deviceState, notify, it, up, gpio>>

\* Mutant: isOpen following the live line while the device is disabled.
run_enabled_track ==
    /\ pc = "enabled"
    /\ pc' = IF enabled_test(isEnabled) THEN "changed" ELSE "sleep"
    /\ isOpen' = IF enabled_test(isEnabled) THEN isOpen ELSE deviceState
    /\ ev' = NoEv
    /\ UNCHANGED <<isArmed, isEnabled, waiters, conn, deviceState, notify, it, up, gpio>>

\* Line 126, second operand.
run_enabled ==
    /\ pc = "enabled"
    /\ pc' = IF enabled_test(isEnabled) THEN "changed" ELSE "sleep"
    /\ ev' = NoEv
    /\ UNCHANGED <<shared, waiters, conn, deviceState, notify, it, up, gpio>>

\* Line 126, third operand.
run_changed ==
    /\ pc = "changed"
    /\ pc' = IF changed_test(deviceState, isOpen) THEN "assign" ELSE "sleep"
    /\ ev' = NoEv
    /\ UNCHANGED <<shared, waiters, conn, deviceState, notify, it, up, gpio>>

\* Mutant: a one-shot alarm, the report disarming the device.
run_assign_disarm ==
    /\ pc = "assign"
    /\ isOpen' = deviceState
    /\ isArmed' = "False"
    /\ pc' = "build"
    /\ ev' = NoEv
    /\ UNCHANGED <<isEnabled, waiters, conn, deviceState, notify, it, up, gpio>>

\* Line 127: DeviceRunner.isOpen = deviceState.
run_assign ==
    /\ pc = "assign"
    /\ isOpen' = deviceState
    /\ pc' = "build"
    /\ ev' = NoEv
    /\ UNCHANGED <<isArmed, isEnabled, waiters, conn, deviceState, notify, it, up, gpio>>

\* Line 128, the argument: device_notify_message() reads cls.isOpen again.
run_notify ==
    /\ pc = "build"
    /\ notify' = device_notify_message(isOpen)
    /\ pc' = "iter"
    /\ ev' = NoEv
    /\ UNCHANGED <<shared, waiters, conn, deviceState, it, up, gpio>>

\* Lines 59-60 in the poller thread: `for waiter in cls.waiters` creates the
\* set iterator, which remembers the set's size.
send_iter ==
    /\ pc = "iter"
    /\ it' = [size |-> Cardinality(waiters), stayed |-> waiters,
              attempted |-> {}]
    /\ pc' = "next"
    /\ ev' = NoEv
    /\ UNCHANGED <<shared, waiters, conn, deviceState, notify, up, gpio>>

\* One write_message inside try/except: the write is attempted; an
\* exception is caught and logged, and the loop goes on either way.
write_message(w) ==
    [it EXCEPT !.attempted = @ \cup {w}]

\* Lines 60-64 in the poller thread, one pass of the loop.  The iterator
\* raises RuntimeError ("Set changed size during iteration") when the set's
\* size differs from the remembered one; the `for` is outside the try, so
\* the error leaves send_updates and run().  On an unchanged set each element
\* is yielded once.  On a set changed back to the same size the hash table
\* may have been rebuilt: any element may be yielded and the loop may end
\* anywhere.  When the loop ends, send_updates returns and its message and
\* iterator are gone.
send_next ==
    /\ pc = "next"
    /\ IF Cardinality(waiters) # it.size
       THEN /\ pc' = "iter_error"
            /\ deviceState' = "None"
            /\ notify' = NoNotify
            /\ it' = NoIter
       ELSE \/ /\ it.stayed = waiters
               /\ waiters \ it.attempted = {}
               /\ pc' = "sleep"
               /\ notify' = NoNotify
               /\ it' = NoIter
               /\ UNCHANGED deviceState
            \/ /\ it.stayed = waiters
               /\ \E w \in waiters \ it.attempted : it' = write_message(w)
               /\ pc' = "next"
               /\ UNCHANGED <<deviceState, notify>>
            \/ /\ it.stayed # waiters
               /\ pc' = "sleep"
               /\ notify' = NoNotify
               /\ it' = NoIter
               /\ UNCHANGED deviceState
            \/ /\ it.stayed # waiters
               /\ \E w \in waiters : it' = write_message(w)
               /\ pc' = "next"
               /\ UNCHANGED <<deviceState, notify>>
    /\ ev' = NoEv
    /\ UNCHANGED <<shared, waiters, conn, up, gpio>>

\* Mutant: isOpen following the live line at the end of every tick of a
\* device that is not armed and enabled.
run_sleep_track ==
    /\ pc = "sleep"
    /\ pc' = "input"
    /\ isOpen' = IF armed_test(isArmed) /\ enabled_test(isEnabled)
                 THEN isOpen ELSE deviceState
    /\ ev' = NoEv
    /\ UNCHANGED <<isArmed, isEnabled, waiters, conn, deviceState, notify, it, up, gpio>>

\* Line 129: time.sleep(0.3), and back to the head of the loop.
run_sleep ==
    /\ pc = "sleep"
    /\ pc' = "input"
    /\ ev' = NoEv
    /\ UNCHANGED <<shared, waiters, conn, deviceState, notify, it, up, gpio>>

(***************************************************************************)
(* Environment                                                             *)
(***************************************************************************)

\* Ctrl-C: Python raises KeyboardInterrupt in the main thread only, inside
\* IOLoop.start() (line 219); main() ends and the daemon thread is killed
\* with the process, wherever it is.
KeyboardInterrupt ==
    /\ up
    /\ up' = FALSE
    /\ pc' = "killed"
    /\ deviceState' = "None"
    /\ notify' = NoNotify
    /\ it' = NoIter
    /\ ev' = NoEv
    /\ UNCHANGED <<shared, waiters, conn, gpio>>

\* on_message does not use self once the frame is decoded and applied:
\* which open connection sent a JSON object makes no difference to the
\* step, so the lowest one stands for all of them.
Senders == {c \in Clients : conn[c] = "open" /\ \A d \in Clients : conn[d] = "open" => c <= d}

Next ==
    \/ (\E c \in Clients : open(c)) /\ UNCHANGED watch
    \/ (\E c \in Clients : on_close(c)) /\ UNCHANGED watch
    \/ (\E c \in Clients : peer_gone(c)) /\ UNCHANGED watch
    \/ (\E c \in Senders, raw \in ObjectTexts : on_message(c, raw)) /\ UNCHANGED watch
    \/ (\E c \in Clients, raw \in RejectedTexts : on_message(c, raw)) /\ UNCHANGED watch
    \/ run_input /\ UNCHANGED watch
    \/ run_input_fault /\ UNCHANGED watch
    \/ run_armed /\ UNCHANGED watch
    \/ run_enabled /\ UNCHANGED watch
    \/ run_changed /\ UNCHANGED watch
    \/ run_assign /\ UNCHANGED watch
    \/ run_notify /\ UNCHANGED watch
    \/ send_iter /\ UNCHANGED watch
    \/ send_next /\ UNCHANGED watch
    \/ run_sleep /\ UNCHANGED watch
    \/ KeyboardInterrupt /\ UNCHANGED watch

Spec == Init /\ [][Next]_vars

\* The IOLoop thread and the transport alone, the poller thread not being
\* scheduled: what one handler does to the shared attributes and writes to
\* the observers does not depend on where the poller is.
NextLoop ==
    \/ (\E c \in Clients : open(c)) /\ UNCHANGED watch
    \/ (\E c \in Clients : on_close(c)) /\ UNCHANGED watch
    \/ (\E c \in Clients : peer_gone(c)) /\ UNCHANGED watch
    \/ (\E c \in Senders, raw \in ObjectTexts : on_message(c, raw)) /\ UNCHANGED watch
    \/ (\E c \in Clients, raw \in RejectedTexts : on_message(c, raw)) /\ UNCHANGED watch

LoopSpec == Init /\ [][NextLoop]_vars

(***************************************************************************)
(* Specifications with an observer                                         *)
(***************************************************************************)

\* last: the DEVICE_OPEN value of the NOTIFY that line 128 built most
\* recently, blank again as soon as on_message has applied a client message.
TrackNotify ==
    /\ last' = CASE pc = "build" /\ pc' = "iter" -> notify'.DEVICE_OPEN
                  [] ev'.op = "on_message" /\ ev'.raised = "none" -> "none"
                  [] OTHER -> last
    /\ UNCHANGED <<snap, same, phase, line>>

NextNotify ==
    \/ (\E c \in Clients : open(c)) /\ TrackNotify
    \/ (\E c \in Clients : on_close(c)) /\ TrackNotify
    \/ (\E c \in Clients : peer_gone(c)) /\ TrackNotify
    \/ (\E c \in Senders, raw \in ObjectTexts : on_message(c, raw)) /\ TrackNotify
    \/ (\E c \in Clients, raw \in RejectedTexts : on_message(c, raw)) /\ TrackNotify
    \/ run_input /\ TrackNotify
    \/ run_input_fault /\ TrackNotify
    \/ run_armed /\ TrackNotify
    \/ run_enabled /\ TrackNotify
    \/ run_changed /\ TrackNotify
    \/ run_assign /\ TrackNotify
    \/ run_notify /\ TrackNotify
    \/ send_iter /\ TrackNotify
    \/ send_next /\ TrackNotify
    \/ run_sleep /\ TrackNotify
    \/ KeyboardInterrupt /\ TrackNotify

NotifySpec == Init /\ [][NextNotify]_vars

\* The condition of line 126 as one predicate of a single state: the three
\* attributes as they are together at one instant, against the tick's sample.
Triple ==
    /\ armed_test(isArmed)
    /\ enabled_test(isEnabled)
    /\ changed_test(deviceState, isOpen)

\* The device is armed and enabled.
ArmedEnabled == armed_test(isArmed) /\ enabled_test(isEnabled)

\* snap: during a tick, from the sample of line 123 to the last operand of
\* line 126, whether Triple held in one of the states the tick has been
\* through; kept while the tick is at line 127, blank otherwise.
TrackSnap ==
    snap' = CASE pc' \in {"armed", "enabled", "changed"} ->
                     IF pc = "input" THEN Triple' ELSE snap \/ Triple'
              [] pc' = "assign" -> snap
              [] OTHER -> FALSE

\* same: during the first tick after a re-arming message, whether its
\* sample of line 123 equals the one the previous tick took (the value
\* deviceState held until this assignment); blank otherwise.
TrackSame ==
    same' = CASE pc = "input" /\ pc' = "armed" ->
                     phase = "rearmed" /\ deviceState' = deviceState
              [] pc' \in {"armed", "enabled", "changed", "assign"} -> same
              [] OTHER -> FALSE

\* phase: "reported" once line 127 has written isOpen and for as long as no
\* message changes it; "rearmed" when, open being so, a message handled
\* between two ticks makes the device armed and enabled that was not;
\* "first" during the tick that samples next; then "reported" again.
TrackPhase ==
    phase' = CASE pc = "assign" /\ pc' = "build" -> "reported"
               [] ev'.op = "on_message" /\ ev'.raised = "none" ->
                     IF isOpen' # isOpen THEN "none"
                     ELSE IF phase = "reported" /\ pc \in {"sleep", "input"}
                             /\ ~ArmedEnabled /\ ArmedEnabled' THEN "rearmed"
                     ELSE IF phase = "rearmed" /\ ~ArmedEnabled' THEN "reported"
                     ELSE phase
               [] pc = "input" /\ pc' = "armed" ->
                     IF phase = "rearmed" THEN "first" ELSE phase
               [] pc # "sleep" /\ pc' = "sleep" ->
                     IF phase = "first" THEN "reported" ELSE phase
               [] OTHER -> phase

TrackTick ==
    /\ TrackSnap
    /\ UNCHANGED <<last, same, phase, line>>

NextTick ==
    \/ (\E c \in Clients : open(c)) /\ TrackTick
    \/ (\E c \in Clients : on_close(c)) /\ TrackTick
    \/ (\E c \in Clients : peer_gone(c)) /\ TrackTick
    \/ (\E c \in Senders, raw \in ObjectTexts : on_message(c, raw)) /\ TrackTick
    \/ (\E c \in Clients, raw \in RejectedTexts : on_message(c, raw)) /\ TrackTick
    \/ run_input /\ TrackTick
    \/ run_input_fault /\ TrackTick
    \/ run_armed /\ TrackTick
    \/ run_enabled /\ TrackTick
    \/ run_changed /\ TrackTick
    \/ run_assign /\ TrackTick
    \/ run_notify /\ TrackTick
    \/ send_iter /\ TrackTick
    \/ send_next /\ TrackTick
    \/ run_sleep /\ TrackTick
    \/ KeyboardInterrupt /\ TrackTick

TickSpec == Init /\ [][NextTick]_vars

TrackRearm ==
    /\ TrackSame
    /\ TrackPhase
    /\ UNCHANGED <<last, snap, line>>

NextRearm ==
    \/ (\E c \in Clients : open(c)) /\ TrackRearm
    \/ (\E c \in Clients : on_close(c)) /\ TrackRearm
    \/ (\E c \in Clients : peer_gone(c)) /\ TrackRearm
    \/ (\E c \in Senders, raw \in ObjectTexts : on_message(c, raw)) /\ TrackRearm
    \/ (\E c \in Clients, raw \in RejectedTexts : on_message(c, raw)) /\ TrackRearm
    \/ run_input /\ TrackRearm
    \/ run_input_fault /\ TrackRearm
    \/ run_armed /\ TrackRearm
    \/ run_enabled /\ TrackRearm
    \/ run_changed /\ TrackRearm
    \/ run_assign /\ TrackRearm
    \/ run_notify /\ TrackRearm
    \/ send_iter /\ TrackRearm
    \/ send_next /\ TrackRearm
    \/ run_sleep /\ TrackRearm
    \/ KeyboardInterrupt /\ TrackRearm

RearmSpec == Init /\ [][NextRearm]_vars

\* line: the level of the contact.  The sample of line 123 is the level at
\* that moment; between samples the contact opens and closes as it likes.
TrackLine ==
    /\ line' = IF pc = "input" /\ pc' = "armed" THEN deviceState' ELSE line
    /\ UNCHANGED <<last, snap, same, phase>>

\* The contact changes level; no statement of the program runs.
line_change ==
    /\ up
    /\ \E level \in PyBool \ {line} : line' = level
    /\ ev' = NoEv
    /\ UNCHANGED <<shared, waiters, conn, poller, up, gpio, last, snap, same, phase>>

\* A statement of run() that the DeviceRunner thread executes when it is
\* scheduled: GPIO.input returning, the tests, the report, the broadcast
\* loop, and time.sleep returning.
run ==
    \/ run_input
    \/ run_armed
    \/ run_enabled
    \/ run_changed
    \/ run_assign
    \/ run_notify
    \/ send_iter
    \/ send_next
    \/ run_sleep

NextLive ==
    \/ (\E c \in Clients : open(c)) /\ TrackLine
    \/ (\E c \in Clients : on_close(c)) /\ TrackLine
    \/ (\E c \in Clients : peer_gone(c)) /\ TrackLine
    \/ (\E c \in Senders, raw \in ObjectTexts : on_message(c, raw)) /\ TrackLine
    \/ (\E c \in Clients, raw \in RejectedTexts : on_message(c, raw)) /\ TrackLine
    \/ run_input /\ TrackLine
    \/ run_input_fault /\ TrackLine
    \/ run_armed /\ TrackLine
    \/ run_enabled /\ TrackLine
    \/ run_changed /\ TrackLine
    \/ run_assign /\ TrackLine
    \/ run_notify /\ TrackLine
    \/ send_iter /\ TrackLine
    \/ send_next /\ TrackLine
    \/ run_sleep /\ TrackLine
    \/ KeyboardInterrupt /\ TrackLine
    \/ line_change

\* The operating system keeps scheduling the DeviceRunner thread: a thread
\* that can execute its next statement eventually does.
LiveSpec == Init /\ [][NextLive]_vars /\ WF_vars(run /\ TrackLine)

(***************************************************************************)
(* Properties                                                              *)
(***************************************************************************)

\* The shared record as a map from message keys to the attributes.
state ==
    [k \in Keys |-> CASE k = DEVICE_OPEN_KEY -> isOpen
                      [] k = DEVICE_ARMED_KEY -> isArmed
                      [] OTHER -> isEnabled]

\* The last step was on_message returning normally.
Replied == ev.op = "on_message" /\ ev.raised = "none"

\* The poller's NOTIFY broadcast is in progress.
Notifying == notify # NoNotify

\* C1: in a poll tick each operand of the test is read once, in the order
\* armed, enabled, sample # open; the tick goes on to report (assign isOpen
\* and broadcast a NOTIFY) exactly when the value read for armed is True, the
\* value read for enabled is True and the sample differs from the value read
\* for open; in every other case (None included) it goes to sleep, and a
\* NOTIFY is only ever created by a tick that passed all three.
C1_ReportIff ==
    [][/\ (pc = "armed" /\ up')
           => pc' = (IF isArmed = "True" THEN "enabled" ELSE "sleep")
       /\ (pc = "enabled" /\ up')
           => pc' = (IF isEnabled = "True" THEN "changed" ELSE "sleep")
       /\ (pc = "changed" /\ up')
           => pc' = (IF deviceState # isOpen THEN "assign" ELSE "sleep")
       /\ (pc = "assign" /\ up') => pc' = "build"
       /\ (pc' = "enabled" => pc = "armed")
       /\ (pc' = "changed" => pc = "enabled")
       /\ (pc' = "assign" => pc = "changed")
       /\ (pc' = "build" => pc = "assign")
       /\ (notify' # notify /\ notify' # NoNotify) => pc = "build"
      ]_<<pc, notify>>

\* C1 witness: a tick that read armed = True, enabled = True and a sample
\* different from open is broadcasting its NOTIFY.
C1_Witness ==
    /\ pc = "next"
    /\ Notifying
    /\ isArmed = "True"
    /\ isEnabled = "True"
    /\ isOpen = deviceState

\* C2: on_message with a JSON object sets each of isOpen, isArmed, isEnabled
\* whose key is in the object to the object's value and leaves each one whose
\* key is absent as it was; an unknown key changes nothing.
C2_PartialUpdate ==
    [][\A c \in Clients, raw \in ObjectTexts :
          on_message(c, raw) =>
              \A k \in Keys :
                  state'[k] = IF k \in DOMAIN raw.obj THEN raw.obj[k] ELSE state[k]
      ]_vars

\* C2 witness: a message has just been applied and armed is True while open
\* and enabled are still unknown (only a message with the armed key alone,
\* or with an unknown key beside it, leads here).
C2_Witness ==
    /\ Replied
    /\ isArmed = "True"
    /\ isOpen = "None"
    /\ isEnabled = "None"

\* C3: a broadcast tries every registered observer whatever subset of the
\* writes raises.  The REPLY broadcast of on_message is attempted on all of
\* waiters, reaches every observer whose write does not raise, and
\* on_message returns normally; the poller's NOTIFY loop, ending on a set
\* unchanged since it began, has attempted all of waiters; and the poller's
\* loop is only ever cut short by the set changing size, never by a write
\* that raised.
C3_BroadcastAll ==
    [][/\ Replied' =>
            /\ ev'.attempted = waiters'
            /\ ev'.received = {w \in waiters' : conn'[w] = "open"}
       /\ (pc = "next" /\ pc' = "sleep" /\ it.stayed = waiters)
            => it.attempted = waiters
       /\ (pc = "next" /\ pc' = "iter_error")
            => Cardinality(waiters) # it.size
      ]_vars

\* C3 witness: a REPLY broadcast was attempted on several observers, the
\* write to some of them raised, and the others received it.
C3_Witness ==
    /\ Replied
    /\ Cardinality(ev.attempted) > 1
    /\ ev.received # {}
    /\ ev.received # ev.attempted

\* C4 as claimed: isOpen is written by the poller's assignment of line 127
\* and by nothing else.
C4_OpenOnlyPoller ==
    [][isOpen' # isOpen => (pc = "assign" /\ pc' = "build" /\ ev' = NoEv)]_vars

\* C4 amended: isOpen is written only by the poller's assignment of line 127
\* (to the sample) and by on_message handling a JSON object that has the
\* DEVICE_OPEN key (to the object's value); a message without that key, a
\* rejected message, open, on_close and a broadcast never change it.
C4_OpenWriters ==
    [][isOpen' # isOpen =>
          \/ /\ pc = "assign" /\ pc' = "build" /\ ev' = NoEv
             /\ isOpen' = deviceState
          \/ /\ Replied'
             /\ UNCHANGED pc
             /\ \A c \in Senders, raw \in ObjectTexts :
                   \/ /\ DEVICE_OPEN_KEY \in DOMAIN raw.obj
                      /\ isOpen' = raw.obj[DEVICE_OPEN_KEY]
                   \/ ~on_message(c, raw)
      ]_vars

\* C4 witness: a message has just been handled and open is known although
\* the poller has not yet taken a single sample.
C4_Witness ==
    /\ Replied
    /\ isOpen # "None"
    /\ deviceState = "None"
    /\ pc = "input"

\* C5: isArmed and isEnabled change only in a step in which on_message
\* returns normally; that step moves nothing of the poller and leaves the
\* observer set alone, so no poll tick, open, on_close or rejected message
\* changes them.
C5_ArmedEnabledWriters ==
    [][(isArmed' # isArmed \/ isEnabled' # isEnabled) =>
          /\ Replied'
          /\ UNCHANGED <<pc, deviceState, notify, it, waiters, conn>>
      ]_vars

\* C5 witness: a tick that reported a transition has written to every
\* observer, and the device is still armed and enabled.
C5_Witness ==
    /\ pc = "next"
    /\ waiters # {}
    /\ it.attempted = waiters
    /\ isArmed = "True"
    /\ isEnabled = "True"

\* C6 as claimed: on_close of an observer that is not in waiters leaves the
\* set as it is and raises nothing.
C6_UnregisterIdempotent ==
    [][\A c \in Clients :
          (c \notin waiters /\ on_close(c)) =>
              (waiters' = waiters /\ ev'.raised = "none")
      ]_vars

\* C7: waiters is exactly the set of observers that open() registered and
\* on_close() has not since unregistered, so registering and unregistering
\* an observer from the empty set leaves it empty; and a broadcast that
\* starts on the empty set writes to nobody.
C7_ActiveSet ==
    /\ waiters = {c \in Clients : conn[c] # "closed"}
    /\ (pc = "next" /\ it.size = 0) => it.attempted = {}

\* C7 witness: a client registered, armed and enabled the device and left;
\* the NOTIFY broadcast of the following transition runs over the empty set
\* and has written to nobody.
C7_Witness ==
    /\ waiters = {}
    /\ \A c \in Clients : conn[c] = "closed"
    /\ isArmed = "True"
    /\ pc = "next"
    /\ it.size = 0
    /\ it.attempted = {}

\* C8 as claimed: a frame that json_decode rejects changes none of isOpen,
\* isArmed, isEnabled, gets no REPLY, and ends neither a connection nor the
\* poller nor the process.
C8_DecodeErrorRejected ==
    [][(ev'.op = "on_message" /\ ev'.raised = "ValueError") =>
          /\ UNCHANGED <<isOpen, isArmed, isEnabled>>
          /\ ev'.msg = NoReply /\ ev'.attempted = {}
          /\ conn' = conn
          /\ waiters' = waiters
          /\ pc' = pc
          /\ up'
      ]_vars

\* C9: a REPLY is broadcast exactly by a step in which on_message returns
\* normally (one REPLY for that message), and such a step does not move the
\* poller; a NOTIFY is created exactly by the poller's step of line 128,
\* once for each assignment of line 127, which only a reportable transition
\* reaches, and that step runs no handler.  The IOLoop thread never sends a
\* NOTIFY, the poller never sends a REPLY.
C9_Causes ==
    [][/\ ev'.msg.MESSAGE_TYPE \in {"none", "REPLY"}
       /\ notify'.MESSAGE_TYPE \in {"none", "NOTIFY"}
       /\ (ev'.msg.MESSAGE_TYPE = "REPLY") <=> Replied'
       /\ Replied' => UNCHANGED <<pc, deviceState, notify, it>>
       /\ (notify' # notify /\ notify' # NoNotify)
            => (pc = "build" /\ pc' = "iter" /\ ev' = NoEv /\ notify = NoNotify)
       /\ (pc = "build" /\ pc' = "iter") => notify'.MESSAGE_TYPE = "NOTIFY"
       /\ (pc' = "build" /\ pc # "build") => (pc = "assign" /\ isOpen' = deviceState)
       /\ (pc' = "assign" /\ pc # "assign")
            => (pc = "changed" /\ deviceState # isOpen)
      ]_vars

\* C9 witness: a REPLY has just been broadcast while the poller is in the
\* middle of its own NOTIFY broadcast.
C9_Witness ==
    /\ Replied
    /\ ev.msg.MESSAGE_TYPE = "REPLY"
    /\ pc = "next"
    /\ notify.MESSAGE_TYPE = "NOTIFY"

\* C10: the REPLY that on_message broadcasts carries, for each of armed and
\* enabled, the object's value when the object has the key and the value
\* held before the message when it has not, and it is written to every
\* observer in waiters (and reaches those whose write does not raise).
C10_ReplyContent ==
    [][\A c \in Clients, raw \in ObjectTexts :
          on_message(c, raw) =>
              /\ ev'.msg.MESSAGE_TYPE = "REPLY"
              /\ ev'.msg.DEVICE_ARMED =
                    (IF DEVICE_ARMED_KEY \in DOMAIN raw.obj
                     THEN raw.obj[DEVICE_ARMED_KEY] ELSE isArmed)
              /\ ev'.msg.DEVICE_ENABLED =
                    (IF DEVICE_ENABLED_KEY \in DOMAIN raw.obj
                     THEN raw.obj[DEVICE_ENABLED_KEY] ELSE isEnabled)
              /\ ev'.attempted = waiters
              /\ ev'.received = {w \in waiters : conn[w] = "open"}
      ]_vars

\* C10 witness: with open still unknown, REPLY {armed: True, enabled: True}
\* has just reached every one of the connected observers.
C10_Witness ==
    /\ Replied
    /\ ev.msg = [MESSAGE_TYPE |-> "REPLY", DEVICE_ARMED |-> "True",
                 DEVICE_ENABLED |-> "True"]
    /\ isOpen = "None"
    /\ ev.received = Clients

\* C13 as claimed: the poller's broadcast works on a snapshot of waiters, so
\* an open or on_close that the IOLoop thread runs while the broadcast is in
\* progress never makes it fail, and when the broadcast ends every observer
\* that was registered from its first to its last step has been written to.
C13_SnapshotBroadcast ==
    [][pc = "next" =>
          /\ pc' # "iter_error"
          /\ pc' = "sleep" => it.stayed \subseteq it.attempted
      ]_vars

\* C14 as claimed: the NOTIFY that the poller broadcasts carries the sample
\* of its tick, whatever the IOLoop thread did between the assignment of
\* line 127 and the read of line 154.
C14_NotifyCarriesSample ==
    Notifying => notify.DEVICE_OPEN = deviceState

\* The poller thread takes a step (every statement of run() moves pc) and
\* the process is not being shut down.
PollerStep == pc' # pc /\ up'

\* A poller step that writes nothing and sends nothing.
NoAction ==
    /\ UNCHANGED <<isOpen, isArmed, isEnabled, waiters, conn>>
    /\ notify' = NoNotify
    /\ it' = NoIter
    /\ ev' = NoEv

\* C15: a tick that reads armed not True, or enabled not True, or a sample
\* equal to open, goes to the sleep of line 129 and from there to the next
\* sample without writing any attribute and without creating a NOTIFY or
\* writing to an observer; the poller writes open only in the assignment of
\* line 127, which no such tick reaches.  The sample plays no part: open
\* keeps its value whether or not the sample differs from it.
C15_NoActionTick ==
    [][PollerStep =>
          /\ (pc = "armed" /\ isArmed # "True") => (pc' = "sleep" /\ NoAction)
          /\ (pc = "enabled" /\ isEnabled # "True") => (pc' = "sleep" /\ NoAction)
          /\ (pc = "changed" /\ deviceState = isOpen) => (pc' = "sleep" /\ NoAction)
          /\ pc = "sleep" => (pc' = "input" /\ NoAction)
          /\ pc = "input" => NoAction
          /\ isOpen' # isOpen => pc = "assign"
      ]_vars

\* C15 witness: the device is disarmed, the tick sampled a level different
\* from the last reported open and has gone to sleep with open as it was.
C15_Witness ==
    /\ pc = "sleep"
    /\ isArmed = "False"
    /\ isEnabled = "True"
    /\ isOpen \in PyBool
    /\ deviceState \in PyBool
    /\ deviceState # isOpen

\* run() has ended: by an exception of GPIO.input, by the RuntimeError of the
\* set iterator, or with the process.
Finished == pc \in {"sensor_fault", "iter_error", "killed"}

\* C18 as claimed: whenever run() has ended, GPIO.cleanup() has been called.
C18_CleanupOnExit ==
    Finished => gpio = "cleaned"

\* C19: the step in which GPIO.input raises ends run() and touches nothing
\* else: the process stays up, waiters and the attributes are as they were.
\* From then on the poller takes no step (it only ends with the process), no
\* NOTIFY exists, and open changes only when a message is applied; as long
\* as the process is up every open connection can still have any JSON
\* object handled, and handling it replies to all waiters.
C19_FaultStopsPollerOnly ==
    /\ []((pc = "sensor_fault" /\ up) =>
            \A c \in Clients, raw \in ObjectTexts :
                conn[c] = "open" => ENABLED on_message(c, raw))
    /\ [][/\ (pc = "input" /\ pc' = "sensor_fault")
               => (up' /\ UNCHANGED <<isOpen, isArmed, isEnabled, waiters, conn>>)
          /\ pc = "sensor_fault" =>
               /\ pc' \in {"sensor_fault", "killed"}
               /\ pc' = "killed" <=> ~up'
               /\ notify' = NoNotify /\ it' = NoIter
               /\ isOpen' # isOpen => Replied'
               /\ Replied' => ev'.attempted = waiters
         ]_vars

\* C19 witness: after the sensor fault a client armed the device and the
\* REPLY reached it.
C19_Witness ==
    /\ pc = "sensor_fault"
    /\ up
    /\ Replied
    /\ isArmed = "True"
    /\ ev.msg.DEVICE_ARMED = "True"
    /\ ev.received # {}

\* C20: the step in which a connection opens adds that observer to waiters
\* and does nothing else: isOpen, isArmed and isEnabled keep their values,
\* the IOLoop thread writes no message, and the poller neither moves nor
\* writes.  Messages are written to observers only by the REPLY broadcast
\* of on_message and by the poller's NOTIFY loop, so the new observer learns
\* nothing before one of them runs.
C20_RegisterOnlyAdds ==
    [][/\ \A c \in Clients :
             (conn[c] = "closed" /\ conn'[c] = "open") =>
                 /\ waiters' = waiters \cup {c}
                 /\ UNCHANGED <<isOpen, isArmed, isEnabled>>
                 /\ ev' = NoEv
                 /\ UNCHANGED <<pc, notify>>
                 /\ it'.attempted = it.attempted
       /\ ev'.attempted # {} => Replied'
       /\ it'.attempted \ it.attempted # {}
             => (pc = "next" /\ pc' = "next" /\ notify.MESSAGE_TYPE = "NOTIFY")
      ]_vars

\* C20 witness: the device is armed, enabled and open is known; every
\* client is connected and none of them is being written to.
C20_Witness ==
    /\ waiters = Clients
    /\ \A c \in Clients : conn[c] = "open"
    /\ isArmed = "True"
    /\ isEnabled = "True"
    /\ isOpen \in PyBool
    /\ ev = NoEv
    /\ notify = NoNotify

\* C11: a NOTIFY never carries the value of the NOTIFY before it unless
\* on_message applied a client message in between; and as long as no message
\* has been applied since a NOTIFY, a tick that reaches the third test with
\* a sample equal to that NOTIFY's value goes to sleep without writing or
\* sending, while a tick that reaches it with a sample different from open
\* goes on to report.
C11_NoRepeatNotify ==
    [][/\ (pc = "build" /\ pc' = "iter") => notify'.DEVICE_OPEN # last
       /\ (pc = "changed" /\ PollerStep /\ last # "none" /\ deviceState = last)
             => (pc' = "sleep" /\ NoAction)
       /\ (pc = "changed" /\ PollerStep /\ deviceState # isOpen) => pc' = "assign"
       /\ (pc = "assign" /\ PollerStep) => pc' = "build"
       /\ (pc = "build" /\ PollerStep) => (pc' = "iter" /\ Notifying')
      ]_vars

\* C11 witness: armed and enabled, a NOTIFY was broadcast and no message has
\* been applied since; a later tick sampled the same value again and is at
\* the third test.
C11_Witness ==
    /\ pc = "changed"
    /\ last \in PyBool
    /\ deviceState = last
    /\ isArmed = "True"
    /\ isEnabled = "True"

\* C12 as claimed: a tick that goes on to report has been through a state
\* in which, all at once, armed was True, enabled was True and open differed
\* from the tick's sample.
C12_AtomicSnapshot ==
    pc = "assign" => snap

\* C16 as claimed: the first tick after a re-arming message does not report
\* when its sample equals the sample of the tick before.
C16_NoSpuriousEdge ==
    ~(pc = "assign" /\ phase = "first" /\ same)

\* C16 amended: the first tick after a re-arming message reports exactly
\* when its sample differs from open, and open is then still the value the
\* poller last reported: from that report on nothing but a message carrying
\* another DEVICE_OPEN value, or the next report, changes it, whatever the
\* line did while the device was not armed and enabled and whatever the
\* tick before sampled.
C16_RearmComparesFrozen ==
    [][/\ (phase = "first" /\ pc = "changed" /\ PollerStep)
             => pc' = (IF deviceState # isOpen THEN "assign" ELSE "sleep")
       /\ (phase \in {"reported", "rearmed", "first"} /\ isOpen' # isOpen)
             => \/ pc = "assign" /\ pc' = "build"
                \/ Replied' /\ phase' = "none"
       /\ (phase' = "first" /\ phase # "first")
             => (phase = "rearmed" /\ pc = "input" /\ pc' = "armed")
       /\ (phase' = "rearmed" /\ phase # "rearmed")
             => (Replied' /\ ~ArmedEnabled /\ ArmedEnabled' /\ UNCHANGED isOpen)
      ]_vars

\* C16 witness: the first tick after re-arming took the same sample as the
\* tick before it and is about to report it: the line changed while the
\* device was not armed and enabled.
C16_Witness ==
    /\ pc = "assign"
    /\ phase = "first"
    /\ same
    /\ isOpen \in PyBool

\* The process is up and no sensor read has failed.
Alive == up /\ pc # "sensor_fault"

\* C17 as claimed: with the thread fairly scheduled, whatever the clients
\* and the transport do, if from some moment on the process stays up with
\* no sensor fault, the device stays armed and enabled and the contact
\* stays at a level that open does not have, a NOTIFY carrying that level
\* is eventually broadcast.
C17_EventuallyNotifies ==
    \A level \in PyBool :
        []( ( [](Alive /\ ArmedEnabled /\ line = level) /\ isOpen # level )
               => <>(notify = device_notify_message(level)) )

====
